---------------------------- MODULE Spec2Model ----------------------------
(***************************************************************************)
(* Face-recognition attendance system: the CSV-backed DataManager          *)
(* (src/src/data_handler.py), the camera generators and the trainer of     *)
(* FaceRecognitionSystem (src/src/face_rec.py) and the handlers that drive *)
(* them (src/main.py, src/app.py).                                         *)
(*                                                                         *)
(* Text is modelled as a sequence of one-character strings, so that the    *)
(* conversions the code performs (str(), int(), pandas' column type        *)
(* inference, the "Name.ID.SampleNum.jpg" file name and its split(".")) are*)
(* computed and not assumed.                                               *)
(***************************************************************************)
EXTENDS Integers, Sequences, FiniteSets, TLC

(***************************************************************************)
(* Bounds of the model.                                                    *)
(***************************************************************************)
\* Rows a CSV file (the registry, one date's ledger) may hold.
MaxRows == 2
\* Calendar dates are 0..MaxDay.
MaxDay == 1
\* Sample limit passed to capture_frames (the handlers pass 30).
SampleLimit == 2
\* Faces the detector returns for one frame of a live session.
MaxFaces == 1
\* Faces the detector returns for one frame of a registration capture.
MaxCaptureFaces == 2
\* Frames the camera delivers to one capture_images call before a read fails.
MaxFrames == 2

(***************************************************************************)
(* Text.                                                                   *)
(***************************************************************************)
Digits == {"0", "1", "2", "3", "4", "5", "6", "7", "8", "9"}

DigitVal(c) ==
    CASE c = "0" -> 0 [] c = "1" -> 1 [] c = "2" -> 2 [] c = "3" -> 3
      [] c = "4" -> 4 [] c = "5" -> 5 [] c = "6" -> 6 [] c = "7" -> 7
      [] c = "8" -> 8 [] c = "9" -> 9

DigitChar(n) ==
    CASE n = 0 -> "0" [] n = 1 -> "1" [] n = 2 -> "2" [] n = 3 -> "3"
      [] n = 4 -> "4" [] n = 5 -> "5" [] n = 6 -> "6" [] n = 7 -> "7"
      [] n = 8 -> "8" [] n = 9 -> "9"

\* A text of decimal digits only: what int() and pandas' integer inference
\* accept among the texts of this model (no sign, blank or underscore occurs).
IsIntText(s) == Len(s) > 0 /\ \A i \in 1..Len(s) : s[i] \in Digits

\* Python int(s) for a text of digits: leading zeros are dropped.
RECURSIVE PyInt(_)
PyInt(s) ==
    IF Len(s) = 0 THEN 0
    ELSE 10 * PyInt(SubSeq(s, 1, Len(s) - 1)) + DigitVal(s[Len(s)])

\* Python str(n) for a natural number.
RECURSIVE PyStr(_)
PyStr(n) ==
    IF n < 10 THEN <<DigitChar(n)>>
    ELSE PyStr(n \div 10) \o <<DigitChar(n % 10)>>

\* Python s.split(sep) for a one-character separator.
RECURSIVE SplitFrom(_, _, _)
SplitFrom(s, sep, cur) ==
    IF Len(s) = 0 THEN <<cur>>
    ELSE IF Head(s) = sep THEN <<cur>> \o SplitFrom(Tail(s), sep, <<>>)
    ELSE SplitFrom(Tail(s), sep, Append(cur, Head(s)))

Split(s, sep) == SplitFrom(s, sep, <<>>)

\* Python s.endswith(suffix).
EndsWith(s, suffix) ==
    /\ Len(s) >= Len(suffix)
    /\ SubSeq(s, Len(s) - Len(suffix) + 1, Len(s)) = suffix

(***************************************************************************)
(* The inputs the operations are tried on.                                 *)
(***************************************************************************)
Alice == <<"A", "l", "i", "c", "e">>
Bob == <<"B", "o", "b">>
Unknown == <<"U", "n", "k", "n", "o", "w", "n">>

\* Student ids as typed: canonical numbers, a number with a leading zero and
\* an id that is no number.
IdTexts == {<<"1">>, <<"0", "1">>, <<"S", "1">>}
NameTexts == {Alice, Bob}

VARIABLES
    students,            \* rows of data/students.csv below its header
    training_images,     \* file names in data/training_images
    unreadable,          \* the files among them that no longer open as an image
    unparseable,         \* the csv files pd.read_csv cannot parse, and why
    trainer_file,        \* data/models/trainer.yml: whether it exists, its labels
    recognizer,          \* labels held by the in-memory LBPH recognizer
    attendance,          \* date -> rows of data/attendance/Attendance_<date>.csv
    today,               \* the calendar date datetime.now() reports
    attendance_session,  \* the SessionRoster: ids recognised and not yet saved
    live,                \* the generate_frames generator being consumed, if any
    reg,                 \* the capture_frames generator being consumed, if any
    camera,              \* the generators that hold an opened VideoCapture
    saving,              \* the save_attendance request in progress, if any
    resp                 \* what the last operation returned or yielded

vars == <<students, training_images, unreadable, unparseable, trainer_file,
          recognizer, attendance, today, attendance_session, live, reg,
          camera, saving, resp>>

(***************************************************************************)
(* pandas.read_csv followed by df['Id'].astype(str): a column whose every  *)
(* cell is an integer text is inferred int64, so each cell comes back as   *)
(* the decimal text of its value; any other column stays text.             *)
(***************************************************************************)
IdColumnAsStr(rows) ==
    IF \A i \in 1..Len(rows) : IsIntText(rows[i].Id)
    THEN [i \in 1..Len(rows) |-> PyStr(PyInt(rows[i].Id))]
    ELSE [i \in 1..Len(rows) |-> rows[i].Id]

\* str(student_id) in df['Id'].values
IdInRows(id, rows) ==
    \E i \in 1..Len(rows) : IdColumnAsStr(rows)[i] = id

(***************************************************************************)
(* DataManager (src/src/data_handler.py).                                  *)
(***************************************************************************)
HasStudentId(rows, student_id) == IdInRows(student_id, rows)

\* add_student: the registry after the call.
AddStudentRows(rows, student_id, name) ==
    IF HasStudentId(rows, student_id) THEN rows
    ELSE Append(rows, [Id |-> student_id, Name |-> name])

\* add_student: the (success, message) pair it returns.
AddStudentResult(rows, student_id) ==
    IF HasStudentId(rows, student_id)
    THEN [op |-> "add_student", ok |-> FALSE,
          msg |-> "Student ID already exists."]
    ELSE [op |-> "add_student", ok |-> TRUE,
          msg |-> "Student added successfully."]

\* get_student_name: the Name of the first row whose Id reads back as the id.
GetStudentName(rows, student_id) ==
    IF IdInRows(student_id, rows)
    THEN rows[CHOOSE i \in 1..Len(rows) :
                /\ IdColumnAsStr(rows)[i] = student_id
                /\ \A j \in 1..(i - 1) : IdColumnAsStr(rows)[j] # student_id].Name
    ELSE Unknown

\* mark_attendance: the duplicate test against the ledger of the date.
AlreadyMarked(att, date, student_id) ==
    /\ date \in DOMAIN att
    /\ IdInRows(student_id, att[date])

AttendanceRow(student_id, name, date) ==
    [Id |-> student_id, Name |-> name, Date |-> date]

\* mark_attendance: the ledgers after the call (the Time column, which the
\* code writes and never reads, is left out of a row).
MarkAttendanceFiles(att, date, student_id, name) ==
    IF AlreadyMarked(att, date, student_id) THEN att
    ELSE IF date \in DOMAIN att
         THEN [att EXCEPT ![date] =
                  Append(@, AttendanceRow(student_id, name, date))]
         ELSE [d \in DOMAIN att \cup {date} |->
                  IF d = date THEN <<AttendanceRow(student_id, name, date)>>
                  ELSE att[d]]

\* mark_attendance: the (success, message) pair it returns.
MarkAttendanceResult(att, date, student_id) ==
    IF AlreadyMarked(att, date, student_id)
    THEN [op |-> "mark_attendance", ok |-> FALSE,
          msg |-> "Attendance already marked."]
    ELSE [op |-> "mark_attendance", ok |-> TRUE,
          msg |-> "Attendance marked"]

NoAttendance == [d \in {} |-> <<>>]
\* No csv file is damaged: the registry parses, and so does every ledger.
AllParseable == [students |-> "ok", ledgers |-> [d \in {} |-> "ok"]]

\* What pd.read_csv and df['Id'] raise on a damaged file: a zero-byte file
\* has no columns to parse (EmptyDataError); a file the tokenizer rejects is
\* a ParserError; a ledger whose first line is a data row parses with that
\* row as its header, and df['Id'] is then a KeyError.
ReadCsvError(kind) ==
    CASE kind = "empty" -> "EmptyDataError"
      [] kind = "malformed" -> "ParserError"
      [] kind = "headerless" -> "KeyError"
      [] OTHER -> "none"

LedgerKind(unp, date) ==
    IF date \in DOMAIN unp.ledgers THEN unp.ledgers[date] ELSE "ok"

SetLedgerKind(unp, date, kind) ==
    [unp EXCEPT !.ledgers =
        [d \in DOMAIN unp.ledgers \cup {date} |->
            IF d = date THEN kind ELSE unp.ledgers[d]]]

\* get_student_name: the rows its try block gets to search; any exception
\* of read_csv is caught and the function falls through to "Unknown".
RegistryRows(rows, unp) == IF unp.students = "ok" THEN rows ELSE <<>>
NoModel == [exists |-> FALSE, labels |-> {}]
NoGenerator == [pc |-> "none"]
NoRequest == [pc |-> "idle"]

Init ==
    /\ students = <<>>
    /\ training_images = {}
    /\ unreadable = {}
    /\ unparseable = AllParseable
    /\ trainer_file = NoModel
    /\ recognizer = {}
    /\ attendance = NoAttendance
    /\ today = 0
    /\ attendance_session = {}
    /\ live = NoGenerator
    /\ reg = NoGenerator
    /\ camera = {}
    /\ saving = NoRequest
    /\ resp = [op |-> "init"]

\* The clock passes midnight.
NextDay ==
    /\ today < MaxDay
    /\ today' = today + 1
    /\ resp' = [op |-> "next_day"]
    /\ UNCHANGED <<saving, unparseable, students, training_images, unreadable, trainer_file,
                   recognizer, attendance, attendance_session, live, reg,
                   camera>>

(***************************************************************************)
(* The DataManager called directly, with any id and name.                  *)
(***************************************************************************)
\* add_student reads the registry outside any try block: what read_csv
\* raises leaves the function before anything is written.
add_student(student_id, name) ==
    IF unparseable.students # "ok"
    THEN /\ resp' = [op |-> "add_student",
                     raised |-> ReadCsvError(unparseable.students)]
         /\ UNCHANGED <<saving, students, unparseable, training_images, unreadable,
                        trainer_file, recognizer, attendance, today,
                        attendance_session, live, reg, camera>>
    ELSE /\ ~HasStudentId(students, student_id) => Len(students) < MaxRows
         /\ students' = AddStudentRows(students, student_id, name)
         /\ resp' = AddStudentResult(students, student_id)
         /\ UNCHANGED <<saving, unparseable, training_images, unreadable,
                        trainer_file, recognizer, attendance, today,
                        attendance_session, live, reg, camera>>

\* mark_attendance catches EmptyDataError only.  On a zero-byte ledger it
\* goes on to append the row, without the header since the file exists, and
\* leaves a ledger whose first line is that row; anything else read_csv or
\* df['Id'] raises leaves the function before the write.
mark_attendance(student_id, name) ==
    /\ UNCHANGED <<saving, students, training_images, unreadable, trainer_file,
                   recognizer, today, attendance_session, live, reg, camera>>
    /\ IF LedgerKind(unparseable, today) = "ok"
       THEN /\ today \in DOMAIN attendance
                  /\ ~AlreadyMarked(attendance, today, student_id)
                  => Len(attendance[today]) < MaxRows
            /\ attendance' =
                   MarkAttendanceFiles(attendance, today, student_id, name)
            /\ resp' = MarkAttendanceResult(attendance, today, student_id)
            /\ unparseable' = unparseable
       ELSE IF LedgerKind(unparseable, today) = "empty"
       THEN /\ attendance' = [attendance EXCEPT ![today] =
                   <<AttendanceRow(student_id, name, today)>>]
            /\ resp' = [op |-> "mark_attendance", ok |-> TRUE,
                        msg |-> "Attendance marked"]
            /\ unparseable' = SetLedgerKind(unparseable, today, "headerless")
       ELSE /\ resp' = [op |-> "mark_attendance",
                        raised |-> ReadCsvError(LedgerKind(unparseable, today))]
            /\ UNCHANGED <<attendance, unparseable>>

get_student_name(student_id) ==
    /\ resp' = [op |-> "get_student_name", id |-> student_id,
                name |-> GetStudentName(RegistryRows(students, unparseable),
                                        student_id)]
    /\ UNCHANGED <<saving, unparseable, students, training_images, unreadable, trainer_file,
                   recognizer, attendance, today, attendance_session, live,
                   reg, camera>>

\* get_attendance_today: the rows of today's ledger as a DataFrame; no file
\* and a zero-byte file (EmptyDataError) give the empty frame, any other
\* failure of read_csv is not caught; a ledger without its header line
\* parses, its first row taken for the column names.
get_attendance_today ==
    /\ resp' =
          IF today \notin DOMAIN attendance
                \/ LedgerKind(unparseable, today) = "empty"
          THEN [op |-> "get_attendance_today", rows |-> <<>>]
          ELSE IF LedgerKind(unparseable, today) = "malformed"
          THEN [op |-> "get_attendance_today",
                raised |-> ReadCsvError("malformed")]
          ELSE IF LedgerKind(unparseable, today) = "headerless"
          THEN [op |-> "get_attendance_today",
                rows |-> Tail(attendance[today])]
          ELSE [op |-> "get_attendance_today", rows |-> attendance[today]]
    /\ UNCHANGED <<saving, students, training_images, unreadable, unparseable,
                   trainer_file, recognizer, attendance, today,
                   attendance_session, live, reg, camera>>

\* The ways a csv file on disk stops being parseable: cut to zero bytes,
\* which loses its rows, or overwritten with bytes the tokenizer rejects.
DamageKinds == {"empty", "malformed"}

\* data/students.csv is damaged outside the program.
DamageRegistry(kind) ==
    /\ unparseable.students = "ok"
    /\ unparseable' = [unparseable EXCEPT !.students = kind]
    /\ students' = IF kind = "empty" THEN <<>> ELSE students
    /\ resp' = [op |-> "damage"]
    /\ UNCHANGED <<saving, training_images, unreadable, trainer_file, recognizer,
                   attendance, today, attendance_session, live, reg, camera>>

\* Today's ledger is damaged outside the program.
DamageLedger(kind) ==
    /\ today \in DOMAIN attendance
    /\ LedgerKind(unparseable, today) = "ok"
    /\ unparseable' = SetLedgerKind(unparseable, today, kind)
    /\ attendance' = IF kind = "empty"
                     THEN [attendance EXCEPT ![today] = <<>>]
                     ELSE attendance
    /\ resp' = [op |-> "damage"]
    /\ UNCHANGED <<saving, students, training_images, unreadable, trainer_file,
                   recognizer, today, attendance_session, live, reg, camera>>

\* clear_all_students without the removal of trainer.yml.
ClearAllKeepingModel ==
    /\ students' = <<>>
    /\ training_images' = {}
    /\ unreadable' = {}
    /\ attendance' = NoAttendance
    /\ unparseable' = AllParseable
    /\ resp' = [op |-> "clear_all_students", ok |-> TRUE,
                msg |-> "All student data and attendance records cleared successfully."]
    /\ UNCHANGED <<saving, trainer_file, recognizer, today, attendance_session, live,
                   reg, camera>>

\* clear_all_students: every store is emptied; it always returns success.
clear_all_students ==
    /\ students' = <<>>
    /\ training_images' = {}
    /\ unreadable' = {}
    /\ trainer_file' = NoModel
    /\ attendance' = NoAttendance
    /\ unparseable' = AllParseable
    /\ resp' = [op |-> "clear_all_students", ok |-> TRUE,
                msg |-> "All student data and attendance records cleared successfully."]
    /\ UNCHANGED <<saving, recognizer, today, attendance_session, live, reg, camera>>

RegistryNext ==
    \/ \E student_id \in IdTexts, name \in NameTexts :
          add_student(student_id, name)
    \/ \E student_id \in IdTexts : get_student_name(student_id)
    \/ clear_all_students

\* add_student, get_student_name and clear_all_students in any order.
RegistrySpec == Init /\ [][RegistryNext]_vars

LedgerNext ==
    \/ \E student_id \in IdTexts, name \in NameTexts :
          mark_attendance(student_id, name)
    \/ clear_all_students
    \/ NextDay

\* mark_attendance and clear_all_students in any order, over several dates.
LedgerSpec == Init /\ [][LedgerNext]_vars

\* The (id, name) pairs of the calls made while files get damaged.
FaultInputs == {[id |-> <<"1">>, name |-> Alice], [id |-> <<"S", "1">>, name |-> Bob]}

StoreFaultNext ==
    \/ \E in \in FaultInputs : add_student(in.id, in.name)
    \/ \E in \in FaultInputs : get_student_name(in.id)
    \/ \E in \in FaultInputs : mark_attendance(in.id, in.name)
    \/ get_attendance_today
    \/ \E kind \in DamageKinds : DamageRegistry(kind)
    \/ \E kind \in DamageKinds : DamageLedger(kind)
    \/ clear_all_students

\* The four DataManager functions that read a csv file, on files that get
\* damaged under them.
StoreFaultSpec == Init /\ [][StoreFaultNext]_vars

(***************************************************************************)
(* FaceRecognitionSystem (src/src/face_rec.py).                            *)
(***************************************************************************)
Jpg == <<".", "j", "p", "g">>

\* f"{name}.{student_id}.{sample_num}.jpg"
FileName(name, student_id, sample_num) ==
    name \o <<".">> \o student_id \o <<".">> \o PyStr(sample_num) \o Jpg

\* train_model: the files os.listdir returns that end in '.jpg'.
ImagePaths(files) == {f \in files : EndsWith(f, Jpg)}

\* train_model: a file that opens as an image and whose second dot-separated
\* part int() accepts; any other file is skipped by the except clause.
ValidSample(f, bad) ==
    /\ f \notin bad
    /\ Len(Split(f, ".")) >= 3
    /\ IsIntText(Split(f, ".")[2])

\* train_model: id_ = int(parts[1])
SampleLabel(f) == PyInt(Split(f, ".")[2])

TrainLabels(files, bad) ==
    {SampleLabel(f) : f \in {g \in ImagePaths(files) : ValidSample(g, bad)}}

\* train_model: the (success, message) pair it returns.
TrainResult(files, bad) ==
    IF ImagePaths(files) = {}
    THEN [op |-> "train_model", ok |-> FALSE,
          msg |-> "No training images found."]
    ELSE IF TrainLabels(files, bad) = {}
    THEN [op |-> "train_model", ok |-> FALSE,
          msg |-> "No valid faces found to train."]
    ELSE [op |-> "train_model", ok |-> TRUE,
          msg |-> "Model trained and saved successfully."]

\* recognizer.save reached on every path.
TrainerFileAlwaysSaved(file, files, bad) ==
    [exists |-> TRUE, labels |-> TrainLabels(files, bad)]

\* train_model: trainer.yml after the call; recognizer.save runs only after
\* both early returns.
TrainerFileAfter(file, files, bad) ==
    IF TrainResult(files, bad).ok
    THEN [exists |-> TRUE, labels |-> TrainLabels(files, bad)]
    ELSE file

\* train_model: the in-memory recognizer after the call.
RecognizerAfterTrain(rec, files, bad) ==
    IF TrainResult(files, bad).ok THEN TrainLabels(files, bad) ELSE rec

\* POST /api/train, and the "Train Model" button of app.py.
train_model ==
    /\ trainer_file' = TrainerFileAfter(trainer_file, training_images, unreadable)
    /\ recognizer' = RecognizerAfterTrain(recognizer, training_images, unreadable)
    /\ resp' = TrainResult(training_images, unreadable)
    /\ UNCHANGED <<saving, unparseable, students, training_images, unreadable, attendance, today,
                   attendance_session, live, reg, camera>>

\* cam.release() placed after the loop, with no try/finally around it.
CameraAfterExitNoFinally(cam, who, how) ==
    IF how \in {"raise", "close"} THEN cam ELSE cam \ {who}

\* The camera of a generator once its frame loop is left: cam.release() sits
\* in the finally clause, so it runs however the loop is left ("eof": a failed
\* read, "limit": the sample limit, "raise": an exception in the frame,
\* "close": the consumer drops the generator, which raises GeneratorExit at
\* the yield).
CameraAfterExit(cam, who, how) == cam \ {who}

\* What one pass of a frame loop meets: cam.read() fails, or it returns a
\* frame and the detector or the recognizer raises, or the frame goes through.
FrameInputs ==
    {[ret |-> FALSE, fault |-> FALSE], [ret |-> TRUE, fault |-> TRUE],
     [ret |-> TRUE, fault |-> FALSE]}

\* capture_frames: sample_num after the faces of one frame; elapsed[i] tells
\* whether capture_interval has passed since the last save when face i is
\* reached (last_capture_time starts at 0, so the first face is always saved).
RECURSIVE CountAfterFaces(_, _)
CountAfterFaces(sample_num, elapsed) ==
    IF Len(elapsed) = 0 THEN sample_num
    ELSE CountAfterFaces(
            IF sample_num = 0 \/ Head(elapsed) THEN sample_num + 1 ELSE sample_num,
            Tail(elapsed))

\* capture_frames: the files cv2.imwrite writes for one frame.
FilesWritten(name, student_id, before, after) ==
    {FileName(name, student_id, n) : n \in (before + 1)..after}

\* What capture_images meets in one frame the camera delivers: the faces
\* the detector returns and whether cv2.waitKey reports the 'q' key.
ImageFrames == [faces : 0..MaxCaptureFaces, q : BOOLEAN]

\* The frames of one capture_images call up to the read that fails.
ImageStreams == UNION {[1..n -> ImageFrames] : n \in 0..MaxFrames}

\* capture_images: sample_num when its loop is left.  Every face of a frame
\* is saved; the 'q' key and the limit are tested after the faces of the
\* frame.
RECURSIVE CaptureImagesCount(_, _, _)
CaptureImagesCount(sample_num, frames, limit) ==
    IF Len(frames) = 0 THEN sample_num
    ELSE IF Head(frames).q \/ sample_num + Head(frames).faces >= limit
    THEN sample_num + Head(frames).faces
    ELSE CaptureImagesCount(sample_num + Head(frames).faces, Tail(frames),
                            limit)

\* capture_images: the whole call; the camera it opens is released in its
\* finally clause before it returns.
capture_images(student_id, name) ==
    /\ UNCHANGED <<saving, students, unparseable, trainer_file, recognizer,
                   attendance, today, attendance_session, live, reg, camera>>
    /\ \E opened \in BOOLEAN, frames \in ImageStreams :
          IF ~opened
          THEN /\ resp' = [op |-> "capture_images", ok |-> FALSE,
                           msg |-> "Could not open camera."]
               /\ UNCHANGED <<training_images, unreadable>>
          ELSE LET total == CaptureImagesCount(0, frames, SampleLimit) IN
               /\ training_images' = training_images \cup
                      FilesWritten(name, student_id, 0, total)
               /\ unreadable' = unreadable \
                      FilesWritten(name, student_id, 0, total)
               /\ resp' = [op |-> "capture_images", ok |-> TRUE,
                           count |-> total, limit |-> SampleLimit]

CaptureGenerator(student_id, name, sample_num) ==
    [pc |-> "yielded", student_id |-> student_id, name |-> name,
     sample_num |-> sample_num, limit |-> SampleLimit]

\* capture_frames: one pass of the while loop, from cam.read() to the yield or
\* to the end of the generator.
CaptureLoop(student_id, name, sample_num, in, elapsed) ==
    /\ UNCHANGED <<saving, unparseable, trainer_file, recognizer, attendance, today,
                   attendance_session, live>>
    /\ IF ~in.ret \/ in.fault
       THEN /\ reg' = NoGenerator
            /\ camera' = CameraAfterExit(camera \cup {"capture_frames"},
                                         "capture_frames",
                                         IF ~in.ret THEN "eof" ELSE "raise")
            /\ training_images' = training_images
            /\ unreadable' = unreadable
            /\ resp' = [op |-> "capture_frames",
                        end |-> IF ~in.ret THEN "eof" ELSE "raise"]
       ELSE LET after == CountAfterFaces(sample_num, elapsed) IN
            /\ reg' = CaptureGenerator(student_id, name, after)
            /\ camera' = camera \cup {"capture_frames"}
            /\ training_images' = training_images \cup
                   FilesWritten(name, student_id, sample_num, after)
            /\ unreadable' = unreadable \
                   FilesWritten(name, student_id, sample_num, after)
            /\ resp' = [op |-> "capture_frames", end |-> "yield", frame |-> TRUE,
                        count |-> after, limit |-> SampleLimit]

FaceTimings == UNION {[1..n -> BOOLEAN] : n \in 0..MaxCaptureFaces}

\* capture_frames up to its first yield: the camera is opened, and a camera
\* that does not open yields (None, 0, limit), on which the consumers stop.
CaptureStart(student_id, name) ==
    \E opened \in BOOLEAN, in \in FrameInputs, elapsed \in FaceTimings :
       IF ~opened
       THEN /\ resp' = [op |-> "capture_frames", end |-> "yield",
                        frame |-> FALSE, count |-> 0, limit |-> SampleLimit]
            /\ UNCHANGED <<saving, unparseable, training_images, unreadable, trainer_file,
                           recognizer, attendance, today, attendance_session,
                           live, reg, camera>>
       ELSE CaptureLoop(student_id, name, 0, in, elapsed)

\* The consumer asks capture_frames for its next frame: the limit is tested
\* right after the yield, then the loop goes round.
CaptureNext ==
    /\ reg # NoGenerator
    /\ UNCHANGED students
    /\ IF reg.sample_num >= reg.limit
       THEN /\ reg' = NoGenerator
            /\ camera' = CameraAfterExit(camera, "capture_frames", "limit")
            /\ resp' = [op |-> "capture_frames", end |-> "limit"]
            /\ UNCHANGED <<saving, unparseable, training_images, unreadable, trainer_file,
                           recognizer, attendance, today, attendance_session,
                           live>>
       ELSE \E in \in FrameInputs, elapsed \in FaceTimings :
               CaptureLoop(reg.student_id, reg.name, reg.sample_num,
                           in, elapsed)

\* The consumer stops iterating (the client disconnects, the script reruns):
\* the generator is closed where it is suspended, at the yield.
CaptureClose ==
    /\ reg # NoGenerator
    /\ reg' = NoGenerator
    /\ camera' = CameraAfterExit(camera, "capture_frames", "close")
    /\ resp' = [op |-> "capture_frames", end |-> "close"]
    /\ UNCHANGED <<saving, unparseable, students, training_images, unreadable, trainer_file,
                   recognizer, attendance, today, attendance_session, live>>

\* if conf < 50 (face_rec.py line 237)
ConfidenceGate == 50

\* The gate with <= in place of <.
ConfLessOrEqual(conf, k) == conf.whole < k \/ (conf.whole = k /\ conf.frac = 0)

\* A confidence is whole + frac/1000 with frac in 0..999, so that 49.999 and
\* 50.0 are both values; conf < k for an integer k.
ConfLess(conf, k) == conf.whole < k

Accepted(pred) == ConfLess(pred.conf, ConfidenceGate)

\* The confidences recognizer.predict is tried on: 10, 49.999 and 50.
Confidences ==
    {[whole |-> 10, frac |-> 0], [whole |-> 49, frac |-> 999],
     [whole |-> 50, frac |-> 0]}

Predictions(rec) ==
    UNION {[1..n -> [id : rec, conf : Confidences]] : n \in 0..MaxFaces}

\* generate_frames: current_frame_students after the faces of one frame.
RECURSIVE FrameStudents(_, _)
FrameStudents(preds, rows) ==
    IF Len(preds) = 0 THEN <<>>
    ELSE (IF Accepted(Head(preds))
          THEN <<[id |-> Head(preds).id,
                  name |-> GetStudentName(rows, PyStr(Head(preds).id))]>>
          ELSE <<>>) \o FrameStudents(Tail(preds), rows)

\* generate_frames: display_text of one face.
DisplayText(pred, rows) ==
    IF Accepted(pred)
    THEN GetStudentName(rows, PyStr(pred.id)) \o <<" ", "(">>
            \o PyStr(pred.conf.whole) \o <<")">>
    ELSE Unknown

\* gen_frames_attendance: attendance_session.add(str(s['id'])) for each
\* student of the frame.
RosterAfterFrame(roster, frame_students) ==
    roster \cup {PyStr(frame_students[i].id) : i \in 1..Len(frame_students)}

\* generate_frames: one pass of the while loop, and what its consumer does
\* with the pair it yields.
GenerateLoop(rec, in, preds) ==
    /\ UNCHANGED <<saving, unparseable, students, training_images, unreadable, trainer_file,
                   attendance, today, reg>>
    /\ recognizer' = rec
    /\ IF ~in.ret \/ in.fault
       THEN /\ live' = NoGenerator
            /\ camera' = CameraAfterExit(camera \cup {"generate_frames"},
                                         "generate_frames",
                                         IF ~in.ret THEN "eof" ELSE "raise")
            /\ attendance_session' = attendance_session
            /\ resp' = [op |-> "generate_frames",
                        end |-> IF ~in.ret THEN "eof" ELSE "raise"]
       ELSE /\ live' = [pc |-> "yielded"]
            /\ camera' = camera \cup {"generate_frames"}
            /\ attendance_session' =
                   RosterAfterFrame(attendance_session,
                                    FrameStudents(preds,
                                    RegistryRows(students, unparseable)))
            /\ resp' = [op |-> "generate_frames", end |-> "yield",
                        frame |-> TRUE, preds |-> preds,
                        students |-> FrameStudents(preds,
                                    RegistryRows(students, unparseable)),
                        texts |-> [i \in 1..Len(preds) |->
                                      DisplayText(preds[i],
                                          RegistryRows(students,
                                                       unparseable))]]

\* The test for trainer.yml left out.
ModelMissingNever(file) == FALSE

\* generate_frames: if not os.path.exists(self.data_manager.trainer_file)
ModelMissing(file) == ~file.exists

\* generate_frames up to its first yield: without trainer.yml it yields
\* (None, message) before it touches the camera; else it loads the model,
\* opens the camera and enters the loop.  The consumers stop on a None frame.
GenerateStart ==
    /\ live = NoGenerator
    /\ IF ModelMissing(trainer_file)
       THEN /\ resp' = [op |-> "generate_frames", end |-> "yield",
                        frame |-> FALSE,
                        msg |-> "Model not trained. Please train the model first."]
            /\ UNCHANGED <<saving, unparseable, students, training_images, unreadable, trainer_file,
                           recognizer, attendance, today, attendance_session,
                           live, reg, camera>>
       ELSE \E opened \in BOOLEAN, in \in FrameInputs,
               preds \in Predictions(trainer_file.labels) :
               IF ~opened
               THEN /\ recognizer' = trainer_file.labels
                    /\ resp' = [op |-> "generate_frames", end |-> "yield",
                                frame |-> FALSE,
                                msg |-> "Could not open camera."]
                    /\ UNCHANGED <<saving, unparseable, students, training_images, unreadable,
                                   trainer_file, attendance, today,
                                   attendance_session, live, reg, camera>>
               ELSE GenerateLoop(trainer_file.labels, in, preds)

\* The consumer asks generate_frames for its next frame.
GenerateNext ==
    /\ live # NoGenerator
    /\ \E in \in FrameInputs, preds \in Predictions(recognizer) :
          GenerateLoop(recognizer, in, preds)

\* The consumer stops iterating: the generator is closed at the yield.
GenerateClose ==
    /\ live # NoGenerator
    /\ live' = NoGenerator
    /\ camera' = CameraAfterExit(camera, "generate_frames", "close")
    /\ resp' = [op |-> "generate_frames", end |-> "close"]
    /\ UNCHANGED <<saving, unparseable, students, training_images, unreadable, trainer_file,
                   recognizer, attendance, today, attendance_session, reg>>

(***************************************************************************)
(* The handlers (src/main.py, src/app.py).                                 *)
(***************************************************************************)
\* The (id, name) pairs typed into the registration form.
RegInputs ==
    {[id |-> <<"1">>, name |-> Alice], [id |-> <<"S", "1">>, name |-> Alice]}

\* POST /api/register/check
check_student(student_id, name) == add_student(student_id, name)

\* GET /video_feed/register/{student_id}/{name}: gen_frames_registration
\* starts capture_frames for whatever id and name the path carries.
video_feed_register(student_id, name) ==
    /\ reg = NoGenerator
    /\ UNCHANGED students
    /\ CaptureStart(student_id, name)

\* The "Start Capture" button of app.py: add_student, and capture_frames only
\* when it succeeded.
StartCapture(student_id, name) ==
    /\ reg = NoGenerator
    /\ IF unparseable.students # "ok"
       THEN add_student(student_id, name)
       ELSE /\ ~HasStudentId(students, student_id) => Len(students) < MaxRows
            /\ students' = AddStudentRows(students, student_id, name)
            /\ IF AddStudentResult(students, student_id).ok
               THEN CaptureStart(student_id, name)
               ELSE /\ resp' = AddStudentResult(students, student_id)
                    /\ UNCHANGED <<saving, unparseable, training_images, unreadable,
                                   trainer_file, recognizer, attendance,
                                   today, attendance_session, live, reg,
                                   camera>>

\* The orders in which a for loop may visit the members of a set.
Orders(S) ==
    {f \in [1..Cardinality(S) -> S] :
        \A i, j \in 1..Cardinality(S) : f[i] = f[j] => i = j}

\* save_attendance: the ledgers after the loop has visited the ids of order.
RECURSIVE SaveLoopFiles(_, _, _, _)
SaveLoopFiles(att, rows, date, order) ==
    IF Len(order) = 0 THEN att
    ELSE SaveLoopFiles(
            MarkAttendanceFiles(att, date, Head(order),
                                GetStudentName(rows, Head(order))),
            rows, date, Tail(order))

\* The loop counting every id it visits, marked or not.
SaveLoopCountAttempts(att, rows, date, order) == Len(order)

\* save_attendance: count after the loop has visited the ids of order.
RECURSIVE SaveLoopCount(_, _, _, _)
SaveLoopCount(att, rows, date, order) ==
    IF Len(order) = 0 THEN 0
    ELSE (IF MarkAttendanceResult(att, date, Head(order)).ok THEN 1 ELSE 0)
         + SaveLoopCount(
              MarkAttendanceFiles(att, date, Head(order),
                                  GetStudentName(rows, Head(order))),
              rows, date, Tail(order))

\* The answer without the early return on an empty roster.
SaveResponseNoEarlyReturn(att, rows, date, order) ==
    [op |-> "save_attendance", roster |-> {order[i] : i \in 1..Len(order)},
     success |-> TRUE, msg |-> "Saved",
     count |-> SaveLoopCount(att, rows, date, order)]

\* save_attendance: what it answers for a roster visited in order ("Saved
\* {count} records."); roster repeats the ids the request found in the roster.
SaveResponse(att, rows, date, order) ==
    IF Len(order) = 0
    THEN [op |-> "save_attendance", roster |-> {}, success |-> FALSE,
          msg |-> "No students to save."]
    ELSE [op |-> "save_attendance",
          roster |-> {order[i] : i \in 1..Len(order)}, success |-> TRUE,
          msg |-> "Saved", count |-> SaveLoopCount(att, rows, date, order)]

\* save_attendance: the roster it leaves (an empty roster returns before
\* attendance_session.clear(), which would leave it empty as well).
RosterAfterSave(roster) == {}

\* POST /api/attendance/save, and the "Save Attendance" button of app.py.
\* Every mark_attendance of one request reads the same date.
\* On a ledger read_csv cannot parse, what mark_attendance raises leaves
\* the handler inside the loop, before attendance_session.clear(): at the
\* first id, or at the second when the ledger was a zero-byte file that the
\* first mark_attendance turned into a ledger without header.
save_attendance ==
    /\ UNCHANGED <<saving, students, training_images, unreadable, trainer_file,
                   recognizer, today, live, reg, camera>>
    /\ \E order \in Orders(attendance_session) :
          LET rows == RegistryRows(students, unparseable)
              kind == LedgerKind(unparseable, today)
          IN  IF kind = "ok" \/ Len(order) = 0
              THEN /\ attendance' = SaveLoopFiles(attendance, rows, today, order)
                   /\ resp' = SaveResponse(attendance, rows, today, order)
                   /\ attendance_session' = RosterAfterSave(attendance_session)
                   /\ unparseable' = unparseable
              ELSE IF kind = "empty"
              THEN /\ attendance' = [attendance EXCEPT ![today] =
                          <<AttendanceRow(Head(order),
                                          GetStudentName(rows, Head(order)),
                                          today)>>]
                   /\ unparseable' =
                          SetLedgerKind(unparseable, today, "headerless")
                   /\ IF Len(order) = 1
                      THEN /\ resp' = [op |-> "save_attendance",
                                       roster |-> attendance_session,
                                       success |-> TRUE, msg |-> "Saved",
                                       count |-> 1]
                           /\ attendance_session' =
                                  RosterAfterSave(attendance_session)
                      ELSE /\ resp' = [op |-> "save_attendance",
                                       roster |-> attendance_session,
                                       raised |-> ReadCsvError("headerless")]
                           /\ attendance_session' = attendance_session
              ELSE /\ resp' = [op |-> "save_attendance",
                               roster |-> attendance_session,
                               raised |-> ReadCsvError(kind)]
                   /\ UNCHANGED <<attendance, attendance_session, unparseable>>

(***************************************************************************)
(* save_attendance beside a running attendance stream.  The handler is a   *)
(* coroutine without an await, so no other handler of the event loop runs  *)
(* inside it; gen_frames_attendance is a plain generator, which the        *)
(* StreamingResponse advances in a worker thread, so its                   *)
(* attendance_session.add can fall between any two steps below.            *)
(***************************************************************************)
\* Lines 115-119: the empty test, count = 0, and the set iterator, which
\* records the size of the set it is created on.
SaveBegin ==
    /\ saving = NoRequest
    /\ IF attendance_session = {}
       THEN /\ resp' = SaveResponse(attendance, students, today, <<>>)
            /\ saving' = saving
       ELSE /\ saving' = [pc |-> "loop",
                          used |-> Cardinality(attendance_session),
                          visited |-> {}, count |-> 0]
            /\ resp' = resp
    /\ UNCHANGED <<students, training_images, unreadable, unparseable,
                   trainer_file, recognizer, attendance, today,
                   attendance_session, live, reg, camera>>

\* Lines 119-123: the iterator is asked for the next id.  It raises
\* RuntimeError ("Set changed size during iteration") when the set no
\* longer has the size it recorded, and the handler ends there, before
\* attendance_session.clear(); it ends the loop when every slot has been
\* visited; else the body runs for one more id.
SaveIterate ==
    /\ saving.pc = "loop"
    /\ UNCHANGED <<students, training_images, unreadable, trainer_file,
                   recognizer, today, attendance_session, live, reg, camera>>
    /\ IF Cardinality(attendance_session) # saving.used
       THEN /\ saving' = NoRequest
            /\ resp' = [op |-> "save_attendance",
                        roster |-> attendance_session,
                        raised |-> "RuntimeError"]
            /\ UNCHANGED <<attendance, unparseable>>
       ELSE IF attendance_session \subseteq saving.visited
       THEN /\ saving' = [saving EXCEPT !.pc = "clear"]
            /\ resp' = resp
            /\ UNCHANGED <<attendance, unparseable>>
       ELSE IF LedgerKind(unparseable, today) \notin {"ok", "empty"}
       THEN /\ saving' = NoRequest
            /\ resp' = [op |-> "save_attendance",
                        roster |-> attendance_session,
                        raised |-> ReadCsvError(LedgerKind(unparseable, today))]
            /\ UNCHANGED <<attendance, unparseable>>
       ELSE \E sid \in attendance_session \ saving.visited :
               LET name == GetStudentName(RegistryRows(students, unparseable),
                                          sid)
               IN  /\ resp' = resp
                   /\ IF LedgerKind(unparseable, today) = "empty"
                      THEN /\ attendance' = [attendance EXCEPT ![today] =
                                  <<AttendanceRow(sid, name, today)>>]
                           /\ unparseable' = SetLedgerKind(unparseable, today,
                                                           "headerless")
                           /\ saving' = [saving EXCEPT
                                  !.visited = @ \cup {sid}, !.count = @ + 1]
                      ELSE /\ attendance' = MarkAttendanceFiles(
                                  attendance, today, sid, name)
                           /\ unparseable' = unparseable
                           /\ saving' = [saving EXCEPT
                                  !.visited = @ \cup {sid},
                                  !.count = @ + (IF MarkAttendanceResult(
                                                      attendance, today,
                                                      sid).ok
                                                 THEN 1 ELSE 0)]

\* Lines 125-126: attendance_session.clear() and the answer.
SaveClear ==
    /\ saving.pc = "clear"
    /\ attendance_session' = RosterAfterSave(attendance_session)
    /\ saving' = NoRequest
    /\ resp' = [op |-> "save_attendance", roster |-> saving.visited,
                success |-> TRUE, msg |-> "Saved", count |-> saving.count]
    /\ UNCHANGED <<students, training_images, unreadable, unparseable,
                   trainer_file, recognizer, attendance, today, live, reg,
                   camera>>

\* POST /api/attendance/clear, and the "Clear Names" button of app.py.
clear_attendance_session ==
    /\ attendance_session' = {}
    /\ resp' = [op |-> "clear_attendance_session", success |-> TRUE,
                msg |-> "Cleared session."]
    /\ UNCHANGED <<saving, unparseable, students, training_images, unreadable, trainer_file,
                   recognizer, attendance, today, live, reg, camera>>

Passwords == {"244001", "0000"}

\* POST /api/danger/clear, and the "Clear All Student Data" button of app.py.
clear_all_data(password) ==
    IF password # "244001"
    THEN /\ resp' = [op |-> "clear_all_data", success |-> FALSE,
                     msg |-> "Incorrect Password"]
         /\ UNCHANGED <<saving, unparseable, students, training_images, unreadable, trainer_file,
                        recognizer, attendance, today, attendance_session,
                        live, reg, camera>>
    ELSE clear_all_students

\* The stored training images stop being readable (damaged or truncated
\* files): Image.open raises on them from then on.
DamageImages ==
    /\ training_images # {}
    /\ unreadable # training_images
    /\ unreadable' = training_images
    /\ resp' = [op |-> "damage"]
    /\ UNCHANGED <<saving, unparseable, students, training_images, trainer_file, recognizer,
                   attendance, today, attendance_session, live, reg, camera>>

\* Registration, capture and training, from a fresh installation.
RegistrationNext ==
    \/ \E in \in RegInputs : check_student(in.id, in.name)
    \/ \E in \in RegInputs : StartCapture(in.id, in.name)
    \/ \E in \in RegInputs : video_feed_register(in.id, in.name)
    \/ CaptureNext
    \/ CaptureClose
    \/ train_model
    \/ \E password \in Passwords : clear_all_data(password)
    \/ DamageImages

CaptureSpec == Init /\ [][RegistrationNext]_vars

\* Registration inputs among which one name contains a '.'.
DottedName == <<"A", ".", "1">>

LabelInputs ==
    {[id |-> <<"1">>, name |-> Alice], [id |-> <<"3">>, name |-> DottedName]}

\* Registration through the "Start Capture" button, then training.
LabelNext ==
    \/ \E in \in LabelInputs : StartCapture(in.id, in.name)
    \/ CaptureNext
    \/ CaptureClose
    \/ train_model

LabelSpec == Init /\ [][LabelNext]_vars

\* The two capture functions, called with any registration input.
SampleNext ==
    \/ \E in \in RegInputs : video_feed_register(in.id, in.name)
    \/ CaptureNext
    \/ CaptureClose
    \/ \E in \in RegInputs : capture_images(in.id, in.name)

SampleSpec == Init /\ [][SampleNext]_vars

(***************************************************************************)
(* The data directory outlives the process: DataManager.__init__ creates   *)
(* only what is missing, so a process may start on the files earlier runs  *)
(* left.  InstalledStores are such files: none, two students registered    *)
(* with their samples captured up to the limit, and the same once trained. *)
(***************************************************************************)
TwoStudents ==
    AddStudentRows(AddStudentRows(<<>>, <<"1">>, Alice), <<"2">>, Bob)

TwoStudentsImages ==
    FilesWritten(Alice, <<"1">>, 0, SampleLimit)
        \cup FilesWritten(Bob, <<"2">>, 0, SampleLimit)

InstalledStores ==
    {[students |-> <<>>, images |-> {}, trainer |-> NoModel],
     [students |-> TwoStudents, images |-> TwoStudentsImages,
      trainer |-> NoModel],
     [students |-> TwoStudents, images |-> TwoStudentsImages,
      trainer |-> TrainerFileAfter(NoModel, TwoStudentsImages, {})]}

InitInstalled ==
    /\ \E store \in InstalledStores :
          /\ students = store.students
          /\ training_images = store.images
          /\ trainer_file = store.trainer
    /\ unreadable = {}
    /\ unparseable = AllParseable
    /\ recognizer = {}
    /\ attendance = NoAttendance
    /\ today = 0
    /\ attendance_session = {}
    /\ live = NoGenerator
    /\ reg = NoGenerator
    /\ camera = {}
    /\ saving = NoRequest
    /\ resp = [op |-> "init"]

\* The live recognition session and the SessionRoster.
Next ==
    \/ GenerateStart
    \/ GenerateNext
    \/ GenerateClose
    \/ save_attendance
    \/ clear_attendance_session
    \/ \E password \in Passwords : clear_all_data(password)
    \/ train_model
    \/ NextDay

Spec == InitInstalled /\ [][Next]_vars

\* The attendance stream in its worker thread and a save request.
ConcurrentNext ==
    \/ GenerateStart
    \/ GenerateNext
    \/ GenerateClose
    \/ SaveBegin
    \/ SaveIterate
    \/ SaveClear

ConcurrentSpec == InitInstalled /\ [][ConcurrentNext]_vars

\* The two camera generators side by side.
CameraNext ==
    \/ \E in \in RegInputs : video_feed_register(in.id, in.name)
    \/ CaptureNext
    \/ CaptureClose
    \/ GenerateStart
    \/ GenerateNext
    \/ GenerateClose

CameraSpec == InitInstalled /\ [][CameraNext]_vars

(***************************************************************************)
(* The properties.                                                         *)
(***************************************************************************)
\* C1: mark_attendance calls with the same id on the same date leave exactly
\* one row for that id in the ledger of that date: no ledger holds two rows
\* with the same Id.
C1_OneRowPerIdPerDate ==
    \A d \in DOMAIN attendance :
        \A i, j \in 1..Len(attendance[d]) :
            attendance[d][i].Id = attendance[d][j].Id => i = j

\* C2: after any sequence of add_student calls each id is in the registry at
\* most once.
C2_IdAtMostOnce ==
    \A i, j \in 1..Len(students) :
        students[i].Id = students[j].Id => i = j

\* A live frame has just been yielded and handed to its consumer.
LiveFrameYielded ==
    resp.op = "generate_frames" /\ resp.end = "yield" /\ resp.frame

\* A confidence in thousandths.
Thousandths(conf) == 1000 * conf.whole + conf.frac

StrictlyBelow50(pred) == Thousandths(pred.conf) < 50000

\* The ids of the candidates of preds whose confidence is strictly below 50,
\* in order.
RECURSIVE IdsBelow50(_)
IdsBelow50(preds) ==
    IF Len(preds) = 0 THEN <<>>
    ELSE (IF StrictlyBelow50(Head(preds)) THEN <<Head(preds).id>> ELSE <<>>)
         \o IdsBelow50(Tail(preds))

\* C3 (state part): the result list of a frame holds exactly the candidates
\* whose confidence is strictly below 50, each of them is in the roster, and
\* a face is labelled Unknown exactly when its confidence is 50 or more.
C3_FrameResult ==
    LiveFrameYielded =>
        /\ [i \in 1..Len(resp.students) |-> resp.students[i].id]
              = IdsBelow50(resp.preds)
        /\ \A i \in 1..Len(resp.preds) :
              /\ StrictlyBelow50(resp.preds[i])
                    => PyStr(resp.preds[i].id) \in attendance_session
              /\ (resp.texts[i] = Unknown) <=> ~StrictlyBelow50(resp.preds[i])

\* C3 (step part): a frame adds to the roster the candidates strictly below
\* 50 and nothing else, so a rejected candidate is never added.
C3_RosterStep ==
    (resp'.op = "generate_frames" /\ resp'.end = "yield" /\ resp'.frame) =>
        attendance_session' = attendance_session \cup
            {PyStr(resp'.preds[i].id) :
                i \in {j \in 1..Len(resp'.preds) : StrictlyBelow50(resp'.preds[j])}}

\* C3: a predicted candidate is put in the per-frame result list and in the
\* SessionRoster if and only if its confidence is strictly below 50; a
\* rejected candidate is labelled Unknown and is added to no roster.
C3_ConfidenceGate == []C3_FrameResult /\ [][C3_RosterStep]_vars

\* C3 witness: a candidate with confidence exactly 50 was rejected: it is not
\* in the result list, it is labelled Unknown and its id is not in the roster.
C3_Witness ==
    /\ LiveFrameYielded
    /\ Len(resp.preds) = 1
    /\ resp.preds[1].conf = [whole |-> 50, frac |-> 0]
    /\ resp.students = <<>>
    /\ resp.texts[1] = Unknown
    /\ PyStr(resp.preds[1].id) \notin attendance_session

\* The ids that have a row in the ledger of a date.
LedgerIds(att, date) ==
    IF date \in DOMAIN att
    THEN {att[date][i].Id : i \in 1..Len(att[date])}
    ELSE {}

LedgerLen(att, date) == IF date \in DOMAIN att THEN Len(att[date]) ELSE 0

\* C4: commit attempts mark_attendance for every id of the roster and reports
\* as its count the number of roster ids that had no row in today's ledger
\* before the call; an id already in the ledger adds no row.  After the call
\* every roster id has a row, the rows present before are untouched, exactly
\* one row per new id is appended, and the other dates are left alone.
C4_CommitStep ==
    (resp'.op = "save_attendance" /\ attendance_session # {}) =>
        LET new == attendance_session \ LedgerIds(attendance, today)
            old == LedgerLen(attendance, today)
        IN  /\ resp'.success
            /\ resp'.roster = attendance_session
            /\ resp'.count = Cardinality(new)
            /\ attendance_session \subseteq LedgerIds(attendance', today)
            /\ LedgerLen(attendance', today) = old + Cardinality(new)
            /\ \A i \in 1..old : attendance'[today][i] = attendance[today][i]
            /\ {attendance'[today][i].Id :
                   i \in (old + 1)..LedgerLen(attendance', today)} = new
            /\ \A d \in DOMAIN attendance :
                   d # today => d \in DOMAIN attendance'
                                 /\ attendance'[d] = attendance[d]

\* C4: every commit of a non-empty roster reports as its count the number of
\* roster ids that had no row in today's ledger, and appends one row for each
\* of them and none for the others.
C4_CommitCount == [][C4_CommitStep]_vars

\* C4 witness: a commit of two ids, one of them already in today's ledger,
\* reported one record and left two rows.
C4_Witness ==
    /\ resp.op = "save_attendance"
    /\ resp.roster = {<<"1">>, <<"2">>}
    /\ resp.success
    /\ resp.count = 1
    /\ LedgerLen(attendance, today) = 2

\* C5 as stated: commit on an empty roster reports zero records saved and no
\* failure.
C5_EmptyCommitReportsZero ==
    (resp.op = "save_attendance" /\ resp.roster = {}) =>
        resp.success /\ resp.count = 0

C5_EmptyAnswer ==
    (resp.op = "save_attendance" /\ resp.roster = {}) =>
        /\ ~resp.success
        /\ resp.msg = "No students to save."
        /\ attendance_session = {}

C5_EmptyStep ==
    (resp'.op = "save_attendance" /\ attendance_session = {}) =>
        /\ resp'.roster = {}
        /\ attendance' = attendance
        /\ attendance_session' = attendance_session

\* C5, amended: commit on an empty roster writes nothing and leaves the
\* ledger and the roster as they were; it answers "No students to save."
\* with success false, and no count.
C5_EmptyCommit == []C5_EmptyAnswer /\ [][C5_EmptyStep]_vars

\* C5 witness: a commit found the roster empty.
C5_Witness ==
    /\ resp.op = "save_attendance"
    /\ resp.roster = {}
    /\ ~resp.success

NotTrainedMsg == "Model not trained. Please train the model first."
NoCameraMsg == "Could not open camera."

\* A live session has just failed to start: it yielded no frame.
LiveStartFailed ==
    resp.op = "generate_frames" /\ resp.end = "yield" /\ ~resp.frame

C6_FailedStart ==
    LiveStartFailed =>
        /\ live = NoGenerator
        /\ "generate_frames" \notin camera
        /\ IF trainer_file.exists THEN resp.msg = NoCameraMsg
           ELSE resp.msg = NotTrainedMsg

C6_StartStep ==
    (resp'.op = "generate_frames" /\ live = NoGenerator) =>
        /\ ~trainer_file.exists =>
              /\ resp'.end = "yield"
              /\ ~resp'.frame
              /\ resp'.msg = NotTrainedMsg
              /\ camera' = camera
        /\ (resp'.end = "yield" /\ ~resp'.frame) =>
              /\ attendance_session' = attendance_session
              /\ camera' = camera
              /\ live' = NoGenerator

\* C6: a live session started without a model file fails with "Model not
\* trained" and never acquires the camera; one whose camera does not open
\* fails with "Could not open camera"; a failed start yields no frame, holds
\* no camera and leaves the roster as it was.
C6_StartFailures == []C6_FailedStart /\ [][C6_StartStep]_vars

\* C6 witness: with a model present the camera did not open, and the ids
\* recognised before are still in the roster.
C6_Witness ==
    /\ LiveStartFailed
    /\ resp.msg = NoCameraMsg
    /\ attendance_session # {}

\* C7: a generator that is not being consumed (never started, or ended by a
\* failed read, by the sample limit, by an exception in a frame or by its
\* consumer closing it) holds no camera.
C7_CameraReleased ==
    /\ live = NoGenerator => "generate_frames" \notin camera
    /\ reg = NoGenerator => "capture_frames" \notin camera

\* C7 witness: a live session that held the camera was ended by an exception
\* in the middle of a frame while a registration capture was running, and
\* only the capture holds a camera now.
C7_Witness ==
    /\ resp.op = "generate_frames"
    /\ resp.end = "raise"
    /\ live = NoGenerator
    /\ reg # NoGenerator
    /\ camera = {"capture_frames"}

\* A sample file captured for a student whose id is a number.
CapturedForNumericId(f) ==
    \E in \in RegInputs, n \in 1..(SampleLimit + MaxCaptureFaces) :
        f = FileName(in.name, in.id, n) /\ IsIntText(in.id)

\* The samples of the store that are readable and well formed.
UsableSamples(files, bad) == {f \in files \ bad : CapturedForNumericId(f)}

C8_TrainStep ==
    resp'.op = "train_model" =>
        /\ training_images = {} =>
              ~resp'.ok /\ resp'.msg = "No training images found."
        /\ (training_images # {} /\ UsableSamples(training_images, unreadable) = {}) =>
              ~resp'.ok /\ resp'.msg = "No valid faces found to train."
        /\ UsableSamples(training_images, unreadable) # {} =>
              resp'.ok /\ trainer_file'.exists
        /\ ~resp'.ok => trainer_file' = trainer_file

C8_ModelWritten ==
    (trainer_file' # trainer_file /\ trainer_file'.exists) =>
        /\ resp'.op = "train_model"
        /\ resp'.ok
        /\ UsableSamples(training_images, unreadable) # {}

\* C8: train_model answers "No training images found." on an empty store and
\* "No valid faces found to train." when every sample is unreadable or
\* malformed, and then leaves the model file exactly as it was; the model
\* file is written only by a run that has at least one valid sample.
C8_TrainingFrame == [][C8_TrainStep /\ C8_ModelWritten]_vars

\* C8 witness: training found no valid sample while a model saved earlier
\* exists, and the model is still there.
C8_Witness ==
    /\ resp.op = "train_model"
    /\ ~resp.ok
    /\ resp.msg = "No valid faces found to train."
    /\ trainer_file.exists

C9_Cleared ==
    resp.op = "clear_all_students" =>
        /\ students = <<>>
        /\ training_images = {}
        /\ ~trainer_file.exists
        /\ DOMAIN attendance = {}
        /\ \A id \in IdTexts \cup {<<"2">>} :
              GetStudentName(students, id) = Unknown

C9_Step ==
    /\ (~trainer_file.exists /\ trainer_file'.exists) =>
          resp'.op = "train_model" /\ resp'.ok
    /\ (resp'.op = "generate_frames" /\ live = NoGenerator
            /\ ~trainer_file.exists) =>
          resp'.end = "yield" /\ ~resp'.frame /\ resp'.msg = NotTrainedMsg

\* C9: right after clear_all_students the registry holds only its header,
\* there is no training image, no model file and no ledger, and
\* get_student_name answers "Unknown" for every id; from then on a live
\* session reports "Model not trained" until a training run succeeds, the
\* only step that brings a model file back.
C9_ClearAll == []C9_Cleared /\ [][C9_Step]_vars

\* C9 witness: a process that had loaded a model starts a live session after
\* the stores were cleared and is told the model is not trained.
C9_Witness ==
    /\ LiveStartFailed
    /\ resp.msg = NotTrainedMsg
    /\ recognizer # {}
    /\ students = <<>>
    /\ training_images = {}

\* C10 as stated, first step: with student "S1"/"Alice" registered and her
\* samples captured up to the limit, training succeeds.
C10_TrainingSucceedsForS1 ==
    (/\ resp.op = "train_model"
     /\ students = <<[Id |-> <<"S", "1">>, Name |-> Alice]>>
     /\ training_images = FilesWritten(Alice, <<"S", "1">>, 0, SampleLimit)
     /\ unreadable = {}) => resp.ok

\* The registry holds a row written for this id.
RegistryHasRow(rows, id) == \E i \in 1..Len(rows) : rows[i].Id = id

\* The sample files the first pass of a capture that has just started wrote.
FirstPassFiles(gen) == FilesWritten(gen.name, gen.student_id, 0, gen.sample_num)

\* C11: a registration request for an id that is already registered is
\* rejected before any capture and leaves no partial state, on every entry
\* path; stated here for the training samples: no request starts a capture
\* for an id the registry already holds that overwrites a sample file the
\* store already holds.
C11_NoSampleOverwritten ==
    [][(reg = NoGenerator /\ reg' # NoGenerator
           /\ RegistryHasRow(students, reg'.student_id))
        => FirstPassFiles(reg') \cap training_images = {}]_vars

\* The DataManager functions that read a csv file.
CsvReaders ==
    {"add_student", "get_student_name", "mark_attendance",
     "get_attendance_today"}

\* C12: add_student, get_student_name, mark_attendance and
\* get_attendance_today treat a registry or ledger they cannot parse as
\* empty: whatever the state of the files, each returns a result and none
\* raises.
C12_UnparseableNeverRaises ==
    resp.op \in CsvReaders => "raised" \notin DOMAIN resp

\* C13: a capture with sample limit L never saves more than L samples, for
\* any number of faces per frame and any timing: the count capture_frames
\* yields and the count capture_images returns are at most the limit.
C13_AtMostLimitSaved ==
    /\ resp.op = "capture_frames" /\ "count" \in DOMAIN resp
          => resp.count <= resp.limit
    /\ resp.op = "capture_images" /\ resp.ok => resp.count <= resp.limit

\* The commit did not fail.
C14_CommitFinishes ==
    resp.op = "save_attendance" => "raised" \notin DOMAIN resp

\* Every id the commit removes from the roster has been through the loop.
C14_ClearStep ==
    saving.pc = "clear" /\ saving'.pc = "idle"
        => attendance_session \subseteq saving.visited

\* C14: with the attendance stream adding ids while save_attendance runs,
\* under every interleaving the commit never fails because the roster
\* changed under its loop, and no id leaves the roster through the commit
\* without mark_attendance having been attempted for it.
C14_CommitUnderStream == []C14_CommitFinishes /\ [][C14_ClearStep]_vars

\* C15: every sample train_model feeds to the recognizer is labelled with
\* the student id it was captured for, whatever the name, names with a '.'
\* included: after a successful training, each stored sample that
\* train_model accepts has, as the id derived from its file name, the id
\* passed to the capture that wrote it.
C15_LabelIsCapturedId ==
    resp.op = "train_model" /\ resp.ok =>
        \A in \in LabelInputs, n \in 1..(SampleLimit + MaxCaptureFaces) :
            (/\ FileName(in.name, in.id, n) \in training_images
             /\ ValidSample(FileName(in.name, in.id, n), unreadable))
            => PyStr(SampleLabel(FileName(in.name, in.id, n))) = in.id

=============================================================================
